---- MODULE Spec2Model ----
(***************************************************************************)
(* Model of IMPORT_OT_usdz_material.execute (src/__init__.py): the import  *)
(* operator that walks the selected material archives, extracts each into  *)
(* a temporary directory, calls the host USD importer, adds texture nodes, *)
(* builds a preview sphere and tags the material as an asset.              *)
(*                                                                         *)
(* Strings on which the code computes (file names, image names, material   *)
(* names) are sequences of one-character strings, so that lower(),         *)
(* endswith(), splitext(), startswith(), slicing and the `in` substring    *)
(* test are computed as Python computes them.                              *)
(***************************************************************************)
EXTENDS Integers, Sequences, FiniteSets, TLC

(* ------------------------------ bounds --------------------------------- *)
\* maximal number of archives selected in the file browser for one run
MaxArchives == 2
\* number of image files in the archive "Bricks.zip"
NumGridImages == 7

(* ------------------------- Python string helpers ----------------------- *)
UpperToLower ==
  [A |-> "a", B |-> "b", C |-> "c", D |-> "d", E |-> "e", F |-> "f",
   G |-> "g", H |-> "h", I |-> "i", J |-> "j", K |-> "k", L |-> "l",
   M |-> "m", N |-> "n", O |-> "o", P |-> "p", Q |-> "q", R |-> "r",
   S |-> "s", T |-> "t", U |-> "u", V |-> "v", W |-> "w", X |-> "x",
   Y |-> "y", Z |-> "z"]

\* str.lower()
Lower(s) ==
  [i \in 1..Len(s) |-> IF s[i] \in DOMAIN UpperToLower THEN UpperToLower[s[i]] ELSE s[i]]

\* str.endswith(suffix)
EndsWith(s, suf) ==
  /\ Len(suf) <= Len(s)
  /\ SubSeq(s, Len(s) - Len(suf) + 1, Len(s)) = suf

\* str.startswith(prefix)
StartsWith(s, pre) ==
  /\ Len(pre) <= Len(s)
  /\ SubSeq(s, 1, Len(pre)) = pre

\* the Python test  a in b  on strings
IsSubstr(a, b) ==
  \E i \in 0..(Len(b) - Len(a)) : SubSeq(b, i + 1, i + Len(a)) = a

\* os.path.splitext(f)[0] for a name without directory separators: the
\* extension starts at the last dot, unless only dots precede that dot
SplitExtStem(f) ==
  LET dots == {i \in 1..Len(f) : f[i] = "."}
      last == CHOOSE i \in dots : \A j \in dots : j <= i
  IN  IF dots = {} THEN f
      ELSE IF \A j \in 1..(last - 1) : f[j] = "." THEN f
      ELSE SubSeq(f, 1, last - 1)

UsdcExt == <<".","u","s","d","c">>

ImageExts ==
  { <<".","p","n","g">>, <<".","j","p","g">>, <<".","j","p","e","g">>,
    <<".","t","g","a">>, <<".","b","m","p">>, <<".","t","i","f","f">> }

\* variant: the extension test ignores case
IsUsdcFileAnyCase(f) == EndsWith(Lower(f), UsdcExt)

\* line 51: f.endswith('.usdc')
IsUsdcFile(f) == EndsWith(f, UsdcExt)

\* line 99: img_file.lower().endswith((...))
IsImageFile(f) == \E e \in ImageExts : EndsWith(Lower(f), e)

\* variant: only equal names (ignoring case) count as duplicates
IsDuplicateExact(img_name, existing) ==
  \E ex \in existing : Lower(img_name) = Lower(ex)

\* lines 104-105: the duplicate test of one candidate against the tracked names
IsDuplicate(img_name, existing) ==
  \E ex \in existing :
     \/ IsSubstr(Lower(img_name), Lower(ex))
     \/ IsSubstr(Lower(ex), Lower(img_name))

VendorPrefix == <<"a","C","G","_">>
SpherePrefix == <<"I","m","p","o","r","t","e","d","S","p","h","e","r","e","_">>
DefaultUVMap == <<"U","V","M","a","p">>

(* ------------------------------ inputs --------------------------------- *)
ConcreteAlbedoPng ==
  <<"c","o","n","c","r","e","t","e","_","a","l","b","e","d","o",".","p","n","g">>
AlbedoConcreteJpg ==
  <<"A","l","b","e","d","o","_","C","o","n","c","r","e","t","e",".","j","p","g">>
ConcreteAlbedoImage ==
  <<"C","o","n","c","r","e","t","e","_","A","l","b","e","d","o">>
FooPng == <<"F","o","o",".","p","n","g">>
FooJpg == <<"F","o","o",".","j","p","g">>
AUsdc == <<"a",".","u","s","d","c">>
BUsdc == <<"b",".","u","s","d","c">>

Digits == <<"0","1","2","3","4","5","6","7","8","9">>
GridImage(i) == <<"t", Digits[i + 1], ".", "p", "n", "g">>

\* the archives of the directory shown by the file browser
ZipNames ==
  {"NoScene.zip", "TwoScenes.zip", "Concrete.zip", "Bricks.zip", "Multi.zip",
   "Empty.zip"}

\* the top-level listing of each archive once extracted
ArchiveFiles(zip) ==
  CASE zip = "NoScene.zip" ->
         << <<"S","c","e","n","e",".","U","S","D","C">>,
            <<"r","e","a","d","m","e",".","t","x","t">>,
            FooPng >>
    [] zip = "TwoScenes.zip" ->
         << <<"w","a","l","l",".","t","g","a">>,
            AUsdc,
            <<"R","o","c","k","_","C","o","l","o","r","_","2","K",".","j","p","e","g">>,
            BUsdc,
            <<"r","o","u","g","h",".","J","P","G">> >>
    [] zip = "Concrete.zip" ->
         << <<"C","o","n","c","r","e","t","e",".","u","s","d","c">>,
            ConcreteAlbedoPng,
            AlbedoConcreteJpg >>
    [] zip = "Bricks.zip" ->
         << <<"B","r","i","c","k","0","1",".","u","s","d","c">> >>
         \o [i \in 1..NumGridImages |-> GridImage(i)]
    [] zip = "Multi.zip" ->
         << FooPng,
            <<"m","u","l","t","i",".","u","s","d","c">>,
            FooJpg,
            <<"B","a","r",".","T","I","F","F">>,
            <<"n","o","t","e","s",".","t","x","t">> >>
    [] zip = "Empty.zip" ->
         << <<"g","e","o",".","u","s","d","c">>,
            <<"x",".","b","m","p">> >>

\* a shader node as the operator sees it: type, image (<<>> is None, <<n>> an
\* image named n), label, location and uv_map
Node(type, image, loc) ==
  [type |-> type, image |-> image, label |-> <<>>, location |-> loc, uv_map |-> <<>>]

\* a material data-block as the host importer creates it
Mat(name, nodes) ==
  [name |-> name, nodes |-> nodes, asset |-> FALSE, author |-> "", license |-> "",
   displacement_method |-> "BUMP"]

\* the materials a scene-description file of an archive declares
UsdMaterials(zip, file) ==
  CASE zip = "TwoScenes.zip" /\ file = AUsdc ->
         << Mat(<<"a","C","G","_","R","o","c","k">>,
                << Node("BSDF_PRINCIPLED", <<>>, <<-300, 100>>),
                   Node("TEX_IMAGE", << <<"D","r","y","w","a","l","l">> >>, <<-600, 100>>),
                   Node("OUTPUT_MATERIAL", <<>>, <<200, 100>>),
                   Node("TEX_IMAGE", << <<"r","o","c","k","_","c","o","l","o","r">> >>, <<-600, -200>>) >>) >>
    [] zip = "TwoScenes.zip" /\ file = BUsdc ->
         << Mat(<<"O","t","h","e","r">>, << Node("OUTPUT_MATERIAL", <<>>, <<0, 0>>) >>) >>
    [] zip = "Concrete.zip" ->
         << Mat(<<"a","C","G","_","C","o","n","c","r","e","t","e">>,
                << Node("OUTPUT_MATERIAL", <<>>, <<0, 0>>),
                   [Node("UVMAP", <<>>, <<-900, 0>>) EXCEPT !.uv_map = <<"s","t">>],
                   Node("TEX_IMAGE", << ConcreteAlbedoImage >>, <<-600, 0>>) >>) >>
    [] zip = "Bricks.zip" ->
         << Mat(<<"B","r","i","c","k","0","1">>,
                << Node("BSDF_PRINCIPLED", <<>>, <<-300, 0>>),
                   Node("OUTPUT_MATERIAL", <<>>, <<0, 0>>) >>) >>
    [] zip = "Multi.zip" ->
         << Mat(<<"a","C","G","_","W","o","o","d">>,
                << Node("BSDF_PRINCIPLED", <<>>, <<0, 0>>),
                   Node("TEX_IMAGE", <<>>, <<-300, 0>>) >>),
            Mat(<<"a","C","G","_","W","o","o","d","_","E","x","t","r","a">>,
                << Node("OUTPUT_MATERIAL", <<>>, <<0, 0>>) >>) >>
    [] OTHER -> << >>

\* the scene the operator is invoked on
InitialMaterials ==
  << Mat(<<"M","a","t","e","r","i","a","l">>,
         << Node("BSDF_PRINCIPLED", <<>>, <<0, 0>>),
            Node("OUTPUT_MATERIAL", <<>>, <<300, 0>>) >>) >>
InitialObjects == << [name |-> <<"C","u","b","e">>, materials |-> <<1>>] >>

\* lines 36-39: the selections the file browser can hand over, one path or
\* several distinct files of one directory
Selections ==
  UNION { {s \in [1..n -> ZipNames] : \A i, j \in 1..n : i # j => s[i] # s[j]}
          : n \in 1..MaxArchives }

(* ------------------------------- state --------------------------------- *)
VARIABLES
  zip_paths,        \* the archives selected for this run (line 36-39)
  idx,              \* position of the for loop of line 41 in zip_paths
  pc,               \* the statement execute() is about to run
  materials,        \* bpy.data.materials, in collection order
  objects,          \* bpy.data.objects, in creation order
  images,           \* bpy.data.images loaded from disk, in load order
  reports,          \* the messages passed to self.report
  temp_dirs,        \* the temporary directories on disk: id -> listing
  usd_imports,      \* the calls of bpy.ops.wm.usd_import made so far
  packs,            \* the number of bpy.ops.file.pack_all calls made so far
  result,           \* the value execute() returned, <<>> while it runs
  temp_dir,         \* local: the directory made for the current archive
  usdc_path,        \* local: the scene-description file chosen
  existing_mats,    \* local: material names before the import
  new_mat,          \* local: index of the selected material in materials
  grid_start,       \* local: <<grid_start_x, grid_start_y>>
  existing_images,  \* local: image names tracked for de-duplication
  texture_nodes,    \* local: indices of the nodes added to new_mat
  img_i,            \* local: position of the loop of line 98 in the listing
  raised,           \* the loop positions at which an exception was raised
  scene0            \* the scene when the current archive was started

control == <<zip_paths, idx, pc>>
scene   == <<materials, objects, images>>
host    == <<reports, temp_dirs, usd_imports, packs, result>>
locals  == <<temp_dir, usdc_path, existing_mats, new_mat, grid_start,
             existing_images, texture_nodes, img_i>>
ghost   == <<raised, scene0>>
vars    == <<control, scene, host, locals, ghost>>

TrySteps ==
  {"unzip", "find_usdc", "usd_import", "identify", "textures", "layout",
   "preview", "asset", "uvmap_pack"}

Report(level, zip) == [level |-> level, archive |-> zip]

MaterialNames(mats) == {mats[i].name : i \in 1..Len(mats)}

Init ==
  /\ zip_paths \in Selections
  /\ idx = 1
  /\ pc = "for"
  /\ materials = InitialMaterials
  /\ objects = InitialObjects
  /\ images = << >>
  /\ reports = << >>
  /\ temp_dirs = << >>
  /\ usd_imports = << >>
  /\ packs = 0
  /\ result = << >>
  /\ temp_dir = 0
  /\ usdc_path = << >>
  /\ existing_mats = {}
  /\ new_mat = 0
  /\ grid_start = <<0, 0>>
  /\ existing_images = {}
  /\ texture_nodes = << >>
  /\ img_i = 1
  /\ raised = {}
  /\ scene0 = [materials |-> InitialMaterials, objects |-> InitialObjects,
               images |-> << >>, packs |-> 0]

(* ------------------------------ execute -------------------------------- *)
\* lines 41-43: next archive: report INFO and make its temporary directory
BeginArchive ==
  /\ pc = "for"
  /\ idx <= Len(zip_paths)
  /\ reports' = Append(reports, Report("INFO", zip_paths[idx]))
  /\ temp_dir' = idx
  /\ temp_dirs' = (idx :> << >>) @@ temp_dirs
  /\ scene0' = [materials |-> materials, objects |-> objects, images |-> images,
                packs |-> packs]
  /\ pc' = "unzip"
  /\ UNCHANGED <<zip_paths, idx, scene, usd_imports, packs, result, usdc_path,
                 existing_mats, new_mat, grid_start, existing_images,
                 texture_nodes, img_i, raised>>

\* lines 47-48: extract the archive into the temporary directory
Unzip ==
  /\ pc = "unzip"
  /\ temp_dirs' = [temp_dirs EXCEPT ![temp_dir] = ArchiveFiles(zip_paths[idx])]
  /\ pc' = "find_usdc"
  /\ UNCHANGED <<zip_paths, idx, scene, reports, usd_imports, packs, result,
                 locals, ghost>>

\* variant: the last scene-description file listed is used
ChooseLastUsdc(usdc_files) == usdc_files[Len(usdc_files)]

\* line 56: the scene-description file used is the first one listed
ChooseUsdc(usdc_files) == usdc_files[1]

\* lines 51-59: choose the scene-description file, or warn and skip
FindUsdc ==
  /\ pc = "find_usdc"
  /\ LET usdc_files == SelectSeq(temp_dirs[temp_dir], IsUsdcFile)
     IN  IF usdc_files = << >>
         THEN /\ reports' = Append(reports, Report("WARNING", zip_paths[idx]))
              /\ pc' = "finally"
              /\ UNCHANGED <<usdc_path, existing_mats>>
         ELSE /\ usdc_path' = ChooseUsdc(usdc_files)
              /\ existing_mats' = MaterialNames(materials)
              /\ pc' = "usd_import"
              /\ UNCHANGED reports
  /\ UNCHANGED <<zip_paths, idx, scene, temp_dirs, usd_imports, packs, result,
                 temp_dir, new_mat, grid_start, existing_images, texture_nodes,
                 img_i, ghost>>

\* line 62: the host importer adds the materials the file declares
UsdImport ==
  /\ pc = "usd_import"
  /\ materials' = materials \o UsdMaterials(zip_paths[idx], usdc_path)
  /\ usd_imports' = Append(usd_imports, [archive |-> idx, filepath |-> usdc_path])
  /\ pc' = "identify"
  /\ UNCHANGED <<zip_paths, idx, objects, images, reports, temp_dirs, packs,
                 result, locals, ghost>>

\* line 76: the first node of type OUTPUT_MATERIAL, 0 when there is none
OutputNode(mat) ==
  LET outs == {n \in 1..Len(mat.nodes) : mat.nodes[n].type = "OUTPUT_MATERIAL"}
  IN  IF outs = {} THEN 0 ELSE CHOOSE n \in outs : \A m \in outs : n <= m

\* lines 79-84: the origin of the grid
GridStart(mat) ==
  LET output_node == OutputNode(mat)
  IN  IF output_node # 0
      THEN << mat.nodes[output_node].location[1] + 400,
              mat.nodes[output_node].location[2] >>
      ELSE << 400, 0 >>

\* lines 90-94: the image names referenced by the material's texture nodes
ExistingImages(mat) ==
  { mat.nodes[n].image[1] :
      n \in {m \in 1..Len(mat.nodes) :
               mat.nodes[m].type = "TEX_IMAGE" /\ mat.nodes[m].image # << >>} }

\* variant: the filter on the names known before the import is missing
NewMatsAll(mats, existing) == 1..Len(mats)

\* lines 65-67: the materials whose name was not there before the import
NewMats(mats, existing) == {i \in 1..Len(mats) : mats[i].name \notin existing}

\* variant: the last new material is selected
LastNew(new_mats) == CHOOSE i \in new_mats : \A j \in new_mats : j <= i

\* line 73: new_mats[0]
FirstNew(new_mats) == CHOOSE i \in new_mats : \A j \in new_mats : i <= j

\* lines 65-97: select the first new material, or warn and skip
Identify ==
  /\ pc = "identify"
  /\ LET new_mats == NewMats(materials, existing_mats)
     IN  IF new_mats = {}
         THEN /\ reports' = Append(reports, Report("WARNING", zip_paths[idx]))
              /\ pc' = "finally"
              /\ UNCHANGED <<new_mat, grid_start, existing_images, texture_nodes, img_i>>
         ELSE LET first == FirstNew(new_mats)
              IN  /\ new_mat' = first
                  /\ grid_start' = GridStart(materials[first])
                  /\ existing_images' = ExistingImages(materials[first])
                  /\ texture_nodes' = << >>
                  /\ img_i' = 1
                  /\ pc' = "textures"
                  /\ UNCHANGED reports
  /\ UNCHANGED <<zip_paths, idx, scene, temp_dirs, usd_imports, packs, result,
                 temp_dir, usdc_path, existing_mats, ghost>>

\* variant: each added image is tracked for the rest of the loop
AddTextureTracking ==
  /\ pc = "textures"
  /\ LET listing  == temp_dirs[temp_dir]
         img_file == listing[img_i]
         img_name == SplitExtStem(img_file)
     IN  /\ IF IsImageFile(img_file) /\ ~IsDuplicate(img_name, existing_images)
            THEN /\ images' = Append(images, img_file)
                 /\ materials' =
                      [materials EXCEPT ![new_mat].nodes =
                         Append(@, [Node("TEX_IMAGE", <<img_file>>, <<0, 0>>)
                                      EXCEPT !.label = img_file])]
                 /\ texture_nodes' =
                      Append(texture_nodes, Len(materials[new_mat].nodes) + 1)
                 /\ existing_images' = existing_images \cup {img_name}
            ELSE UNCHANGED <<images, materials, texture_nodes, existing_images>>
         /\ img_i' = img_i + 1
         /\ pc' = IF img_i = Len(listing) THEN "layout" ELSE "textures"
  /\ UNCHANGED <<zip_paths, idx, objects, host, temp_dir, usdc_path,
                 existing_mats, new_mat, grid_start, ghost>>

\* lines 98-114: one iteration of the loop over the extracted files
AddTexture ==
  /\ pc = "textures"
  /\ LET listing  == temp_dirs[temp_dir]
         img_file == listing[img_i]
         img_name == SplitExtStem(img_file)
     IN  /\ IF IsImageFile(img_file) /\ ~IsDuplicate(img_name, existing_images)
            THEN /\ images' = Append(images, img_file)
                 /\ materials' =
                      [materials EXCEPT ![new_mat].nodes =
                         Append(@, [Node("TEX_IMAGE", <<img_file>>, <<0, 0>>)
                                      EXCEPT !.label = img_file])]
                 /\ texture_nodes' =
                      Append(texture_nodes, Len(materials[new_mat].nodes) + 1)
            ELSE UNCHANGED <<images, materials, texture_nodes>>
         /\ img_i' = img_i + 1
         /\ pc' = IF img_i = Len(listing) THEN "layout" ELSE "textures"
  /\ UNCHANGED <<zip_paths, idx, objects, host, temp_dir, usdc_path,
                 existing_mats, new_mat, grid_start, existing_images, ghost>>

\* lines 85-87
node_spacing_x == 300
node_spacing_y == 350
nodes_per_row == 3

\* variant: rows grow upwards
GridLocationUp(start, i) ==
  LET row == i \div nodes_per_row
      col == i % nodes_per_row
  IN  << start[1] + (col * node_spacing_x), start[2] + (row * node_spacing_y) >>

\* lines 118-121: the place of the i-th (0-based) texture node
GridLocation(start, i) ==
  LET row == i \div nodes_per_row
      col == i % nodes_per_row
  IN  << start[1] + (col * node_spacing_x), start[2] - (row * node_spacing_y) >>

\* lines 117-121: position the texture nodes in a grid
Layout ==
  /\ pc = "layout"
  /\ materials' =
       [materials EXCEPT ![new_mat].nodes =
          [n \in 1..Len(@) |->
             IF \E i \in 1..Len(texture_nodes) : texture_nodes[i] = n
             THEN [@[n] EXCEPT !.location =
                     GridLocation(grid_start,
                        (CHOOSE i \in 1..Len(texture_nodes) : texture_nodes[i] = n) - 1)]
             ELSE @[n]]]
  /\ pc' = "preview"
  /\ UNCHANGED <<zip_paths, idx, objects, images, host, locals, ghost>>

\* lines 124-134: displacement method, preview sphere, material slot
Preview ==
  /\ pc = "preview"
  /\ materials' = [materials EXCEPT ![new_mat].displacement_method = "BOTH"]
  /\ LET sphere == [name |-> SpherePrefix \o materials[new_mat].name,
                    materials |-> << >>]
         obj == IF sphere.materials = << >>
                THEN [sphere EXCEPT !.materials = Append(@, new_mat)]
                ELSE [sphere EXCEPT !.materials[1] = new_mat]
     IN  objects' = Append(objects, obj)
  /\ pc' = "asset"
  /\ UNCHANGED <<zip_paths, idx, images, host, locals, ghost>>

\* variant: author and license are set whatever the name
AssetTaggedAlways(mat) ==
  LET m == [mat EXCEPT !.asset = TRUE,
                       !.author = "AmbientCG.com",
                       !.license = "Creative Commons CC0 1.0 Universal License"]
  IN  IF StartsWith(m.name, VendorPrefix)
      THEN [m EXCEPT !.name = SubSeq(m.name, 5, Len(m.name))]
      ELSE m

\* lines 137-141: the material once marked as asset, with the vendor prefix
\* stripped and author and license set when its name carries the prefix
AssetTagged(mat) ==
  LET m == [mat EXCEPT !.asset = TRUE]
  IN  IF StartsWith(m.name, VendorPrefix)
      THEN [m EXCEPT !.name = SubSeq(m.name, 5, Len(m.name)),
                     !.author = "AmbientCG.com",
                     !.license = "Creative Commons CC0 1.0 Universal License"]
      ELSE m

\* lines 137-142: tag the selected material
TagAsset ==
  /\ pc = "asset"
  /\ materials' = [materials EXCEPT ![new_mat] = AssetTagged(@)]
  /\ pc' = "uvmap_pack"
  /\ UNCHANGED <<zip_paths, idx, objects, images, host, locals, ghost>>

\* lines 145-150: default UV map name, asset preview, pack all external data
UVMapAndPack ==
  /\ pc = "uvmap_pack"
  /\ materials' =
       [materials EXCEPT ![new_mat].nodes =
          [n \in 1..Len(@) |->
             IF @[n].type = "UVMAP" THEN [@[n] EXCEPT !.uv_map = DefaultUVMap]
             ELSE @[n]]]
  /\ packs' = packs + 1
  /\ pc' = "finally"
  /\ UNCHANGED <<zip_paths, idx, objects, images, reports, temp_dirs,
                 usd_imports, result, locals, ghost>>

\* variant: no except clause, the exception leaves execute() after the cleanup
RaiseNoHandler ==
  /\ pc \in TrySteps
  /\ raised' = raised \cup {idx}
  /\ temp_dirs' = [e \in (DOMAIN temp_dirs) \ {temp_dir} |-> temp_dirs[e]]
  /\ pc' = "done"
  /\ UNCHANGED <<zip_paths, idx, scene, reports, usd_imports, packs, result,
                 locals, scene0>>

\* lines 152-153: an exception raised by a statement of the try block
Raise ==
  /\ pc \in TrySteps
  /\ reports' = Append(reports, Report("ERROR", zip_paths[idx]))
  /\ raised' = raised \cup {idx}
  /\ pc' = "finally"
  /\ UNCHANGED <<zip_paths, idx, scene, temp_dirs, usd_imports, packs, result,
                 locals, scene0>>

\* variant: the directory is left on disk
RmTreeKeeps(dirs, d) == dirs

\* shutil.rmtree(d, ignore_errors=True) applied to the directories on disk
RmTree(dirs, d) == [e \in (DOMAIN dirs) \ {d} |-> dirs[e]]

\* lines 155-156: remove the temporary directory, go on with the next archive
Finally ==
  /\ pc = "finally"
  /\ temp_dirs' = RmTree(temp_dirs, temp_dir)
  /\ idx' = idx + 1
  /\ pc' = "for"
  /\ UNCHANGED <<zip_paths, scene, reports, usd_imports, packs, result, locals,
                 ghost>>

\* line 158: all archives were attempted
Return ==
  /\ pc = "for"
  /\ idx > Len(zip_paths)
  /\ result' = <<"FINISHED">>
  /\ pc' = "done"
  /\ UNCHANGED <<zip_paths, idx, scene, reports, temp_dirs, usd_imports, packs,
                 locals, ghost>>

Next ==
  \/ BeginArchive
  \/ Unzip
  \/ FindUsdc
  \/ UsdImport
  \/ Identify
  \/ AddTexture
  \/ Layout
  \/ Preview
  \/ TagAsset
  \/ UVMapAndPack
  \/ Raise
  \/ Finally
  \/ Return

Spec == Init /\ [][Next]_vars

TypeOK ==
  /\ pc \in TrySteps \cup {"for", "finally", "done"}
  /\ idx \in 1..(Len(zip_paths) + 1)
  /\ packs \in 0..Len(zip_paths)

(* ----------------------- vocabulary of the properties ------------------ *)
CurZip == zip_paths[idx]

\* the number of messages of a level that name an archive
Count(level, zip) ==
  Cardinality({k \in 1..Len(reports) : reports[k] = Report(level, zip)})

\* the host importer was called for the archive at position i
Imported(i) == \E k \in 1..Len(usd_imports) : usd_imports[k].archive = i

\* the archive at position i has been processed to its end
Completed(i) == i < idx \/ (i = idx /\ pc = "finally")

\* the current archive went through every step
Succeeded == pc = "finally" /\ packs > scene0.packs

\* s = x \o suf for some x
HasSuffix(s, suf) == \E n \in 0..Len(s) : s = SubSeq(s, 1, n) \o suf

\* b = x \o a \o y for some x, y
Contains(b, a) ==
  \E p \in 0..Len(b) : \E q \in p..Len(b) : SubSeq(b, p + 1, q) = a

\* each name contains the other or is contained by it, ignoring case
FuzzyMatch(x, y) ==
  Contains(Lower(x), Lower(y)) \/ Contains(Lower(y), Lower(x))

\* the file carries one of the six image extensions, in any case
HasImageExt(f) == \E e \in ImageExts : HasSuffix(Lower(f), e)

\* the name of an image file without its extension
Stem(f) ==
  CHOOSE st \in {SubSeq(f, 1, n) : n \in 0..Len(f)} :
    \E e \in ImageExts : Lower(f) = Lower(st) \o e

\* positions of the .usdc files in the listing of an archive
UsdcPositions(zip) ==
  {k \in 1..Len(ArchiveFiles(zip)) : HasSuffix(ArchiveFiles(zip)[k], UsdcExt)}

\* the steps at which the locals of the texture loop belong to the current archive
AfterLoop == {"layout", "preview", "asset", "uvmap_pack"}
Processed(k) == pc \in AfterLoop \/ (pc = "textures" /\ k < img_i)

\* a texture node labelled f was added to the selected material
HasTexNode(f) ==
  \E k \in 1..Len(texture_nodes) :
     materials[new_mat].nodes[texture_nodes[k]].label = f

\* the images referenced by the texture nodes the selected material had
\* before the operator added any
ReferencedBefore ==
  LET nodes == materials[new_mat].nodes
      added == {texture_nodes[k] : k \in 1..Len(texture_nodes)}
  IN  {nodes[n].image[1] :
         n \in {m \in 1..Len(nodes) : /\ m \notin added
                                      /\ nodes[m].type = "TEX_IMAGE"
                                      /\ nodes[m].image # << >>}}

\* the image files loaded since the current archive was started
LoadedNow == {images[k] : k \in (Len(scene0.images) + 1)..Len(images)}

(* ------------------------------ properties ----------------------------- *)
\* C1: once execute() has returned, it returned FINISHED, every selected
\* archive was attempted, and there is exactly one ERROR message for each
\* archive that raised an exception and none for the others.
C1_FailuresDoNotAbort ==
  /\ pc = "done" =>
       /\ result = <<"FINISHED">>
       /\ \A i \in 1..Len(zip_paths) :
            /\ Count("INFO", zip_paths[i]) = 1
            /\ Count("ERROR", zip_paths[i]) = IF i \in raised THEN 1 ELSE 0
  /\ \A i \in raised : i < idx => Count("INFO", zip_paths[i]) = 1

C1_Witness ==
  /\ pc = "done"
  /\ Len(zip_paths) = 2
  /\ raised = {1}
  /\ Count("ERROR", zip_paths[1]) = 1
  /\ packs = 1
  /\ Len(objects) = Len(InitialObjects) + 1

\* C2: at most one temporary directory exists at any time, it is the one of
\* the archive being processed, and none exists between two archives or
\* after the run, whatever way the archive's processing ended.
C2_TempDirRemoved ==
  /\ Cardinality(DOMAIN temp_dirs) <= 1
  /\ pc \in {"for", "done"} => DOMAIN temp_dirs = {}
  /\ pc \in TrySteps \cup {"finally"} => DOMAIN temp_dirs = {temp_dir}

C2_Witness ==
  /\ pc = "for"
  /\ idx = 3
  /\ raised = {2}
  /\ Count("WARNING", zip_paths[1]) = 1
  /\ DOMAIN temp_dirs = {}

\* C3: while an archive whose listing has no name ending in ".usdc" is
\* processed, the importer is not called for it and materials, objects and
\* images stay as they were when it was started; it ends with one WARNING.
C3_NoUsdcSkips ==
  (pc \in TrySteps \cup {"finally"} /\ UsdcPositions(CurZip) = {}) =>
     /\ ~Imported(idx)
     /\ materials = scene0.materials
     /\ objects = scene0.objects
     /\ images = scene0.images
     /\ (pc = "finally" /\ idx \notin raised) => Count("WARNING", CurZip) = 1

C3_Witness ==
  /\ pc = "finally"
  /\ idx = 2
  /\ CurZip = "NoScene.zip"
  /\ raised = {}
  /\ Count("WARNING", CurZip) = 1
  /\ Len(materials) > Len(InitialMaterials)

\* the import for the current archive took place and added no material name
NoNewNames ==
  /\ Imported(idx)
  /\ MaterialNames(scene0.materials \o UsdMaterials(CurZip, usdc_path))
       \subseteq MaterialNames(scene0.materials)

\* C4: when the import adds no material name, none of the later steps runs:
\* apart from what the importer added, materials, objects, images and the
\* number of pack-all calls stay as they were, and the archive ends with one
\* WARNING.
C4_NoNewMaterialSkips ==
  (pc \in TrySteps \cup {"finally"} /\ NoNewNames) =>
     /\ pc \in {"identify", "finally"}
     /\ materials = scene0.materials \o UsdMaterials(CurZip, usdc_path)
     /\ objects = scene0.objects
     /\ images = scene0.images
     /\ packs = scene0.packs
     /\ (pc = "finally" /\ idx \notin raised) => Count("WARNING", CurZip) = 1

C4_Witness ==
  /\ pc = "finally"
  /\ idx = 2
  /\ CurZip = "Empty.zip"
  /\ Imported(idx)
  /\ raised = {}
  /\ Count("WARNING", CurZip) = 1
  /\ Len(objects) > Len(InitialObjects)

\* an image file whose stem fuzzy-matches an image the material already
\* referenced gets no texture node and is not loaded
DedupRule ==
  pc \in {"textures"} \cup AfterLoop =>
    \A k \in 1..Len(temp_dirs[temp_dir]) :
       LET f == temp_dirs[temp_dir][k]
       IN  (/\ Processed(k)
            /\ HasImageExt(f)
            /\ \E e \in ReferencedBefore : FuzzyMatch(Stem(f), e))
           => (~HasTexNode(f) /\ f \notin LoadedNow)

\* C5 (as stated): the rule, and with "Concrete_Albedo" referenced both
\* "concrete_albedo.png" and "Albedo_Concrete.jpg" are skipped.
C5_Original ==
  /\ DedupRule
  /\ (pc \in AfterLoop /\ CurZip = "Concrete.zip") =>
        (~HasTexNode(ConcreteAlbedoPng) /\ ~HasTexNode(AlbedoConcreteJpg))

\* C5 (amended): the rule; with "Concrete_Albedo" referenced,
\* "concrete_albedo.png" is skipped, and "Albedo_Concrete.jpg", whose stem
\* neither contains nor is contained by that name, gets a texture node.
C5_Dedup ==
  /\ DedupRule
  /\ (pc \in AfterLoop /\ CurZip = "Concrete.zip") =>
        /\ ConcreteAlbedoImage \in ReferencedBefore
        /\ ~HasTexNode(ConcreteAlbedoPng)
        /\ ConcreteAlbedoPng \notin LoadedNow
        /\ HasTexNode(AlbedoConcreteJpg)
        /\ ~FuzzyMatch(Stem(AlbedoConcreteJpg), ConcreteAlbedoImage)

C5_Witness ==
  /\ pc = "layout"
  /\ CurZip = "Concrete.zip"
  /\ ConcreteAlbedoImage \in ReferencedBefore
  /\ Len(texture_nodes) = 1
  /\ HasTexNode(AlbedoConcreteJpg)

\* C6: after an archive went through every step, the selected material is
\* marked as an asset; if its imported name started with "aCG_" its name is
\* that name without the prefix and author and license are the fixed
\* strings, otherwise name, author and license are as imported.
C6_NameStripping ==
  Succeeded =>
    LET m    == materials[new_mat]
        orig == UsdMaterials(CurZip, usdc_path)[1].name
    IN  /\ m.asset
        /\ IF \E rest \in {SubSeq(orig, n, Len(orig)) : n \in 1..(Len(orig) + 1)} :
                 orig = VendorPrefix \o rest
           THEN /\ orig = VendorPrefix \o m.name
                /\ m.author = "AmbientCG.com"
                /\ m.license = "Creative Commons CC0 1.0 Universal License"
           ELSE /\ m.name = orig
                /\ m.author = ""
                /\ m.license = ""

C6_Witness ==
  /\ Succeeded
  /\ zip_paths = <<"Bricks.zip", "Concrete.zip">>
  /\ idx = 2
  /\ materials[new_mat].name = <<"C","o","n","c","r","e","t","e">>
  /\ materials[new_mat].author = "AmbientCG.com"
  /\ \E j \in 1..Len(materials) :
        /\ materials[j].name = <<"B","r","i","c","k","0","1">>
        /\ materials[j].asset
        /\ materials[j].author = ""

\* C7: after the layout step the i-th added node (from 0) is at
\* (X0 + (i mod 3)*300, Y0 - (i div 3)*350), with (X0, Y0) the location of
\* the output node moved 400 to the right, or (400, 0) without output node;
\* added nodes do not share a position; with the output node at (0,0) and at
\* least five added nodes, node 4 is at (700, -350).
C7_GridLayout ==
  pc \in {"preview", "asset", "uvmap_pack"} =>
    LET nodes == materials[new_mat].nodes
        outs  == {n \in 1..Len(nodes) : nodes[n].type = "OUTPUT_MATERIAL"}
        out   == CHOOSE n \in outs : \A m \in outs : n <= m
        X0    == IF outs = {} THEN 400 ELSE nodes[out].location[1] + 400
        Y0    == IF outs = {} THEN 0 ELSE nodes[out].location[2]
        at(i) == nodes[texture_nodes[i + 1]].location
        n     == Len(texture_nodes)
    IN  /\ \A i \in 0..(n - 1) :
             at(i) = << X0 + (i % 3) * 300, Y0 - (i \div 3) * 350 >>
        /\ \A i, j \in 0..(n - 1) : i # j => at(i) # at(j)
        /\ (outs # {} /\ X0 = 400 /\ Y0 = 0 /\ n >= 5) => at(4) = <<700, -350>>

C7_Witness ==
  /\ pc = "preview"
  /\ CurZip = "Bricks.zip"
  /\ Len(texture_nodes) >= 7
  /\ materials[new_mat].nodes[texture_nodes[5]].location = <<700, -350>>
  /\ materials[new_mat].nodes[texture_nodes[7]].location = <<400, -700>>

\* only the first material that appeared with the import is touched: the
\* materials of the scene before the archive and the further imported
\* materials stay as they were, and at most one object is added, carrying
\* the first new material
OnlyFirstProcessed ==
  pc \in TrySteps \cup {"finally"} =>
    LET n0 == Len(scene0.materials)
    IN  /\ SubSeq(materials, 1, n0) = scene0.materials
        /\ \A j \in (n0 + 2)..Len(materials) :
              materials[j] = UsdMaterials(CurZip, usdc_path)[j - n0]
        /\ Len(objects) <= Len(scene0.objects) + 1
        /\ \A o \in (Len(scene0.objects) + 1)..Len(objects) :
              objects[o].materials = <<n0 + 1>>

\* C8 (as stated): an archive adds at most one material name to the scene,
\* and only the first new material is processed.
C8_Original ==
  /\ OnlyFirstProcessed
  /\ pc \in TrySteps \cup {"finally"} =>
       Cardinality(MaterialNames(materials) \ MaterialNames(scene0.materials)) <= 1

\* C8 (amended): only the first new material is processed; the scene grows
\* by every material the importer yields, which may be several.
C8_OneMaterialProcessed ==
  /\ OnlyFirstProcessed
  /\ pc \in TrySteps \cup {"finally"} =>
       /\ Len(materials) - Len(scene0.materials)
            = IF Imported(idx) THEN Len(UsdMaterials(CurZip, usdc_path)) ELSE 0
       /\ Cardinality(MaterialNames(materials) \ MaterialNames(scene0.materials))
            <= Len(materials) - Len(scene0.materials)

C8_Witness ==
  /\ Succeeded
  /\ CurZip = "Multi.zip"
  /\ Len(materials) = Len(scene0.materials) + 2
  /\ Cardinality(MaterialNames(materials) \ MaterialNames(scene0.materials)) = 2
  /\ materials[Len(scene0.materials) + 1].asset
  /\ ~materials[Len(scene0.materials) + 2].asset

\* C9 (as stated): an archive whose number of .usdc files is not exactly one
\* is not imported and, once processed without exception, has one WARNING.
C9_Original ==
  \A i \in 1..Len(zip_paths) :
     Cardinality(UsdcPositions(zip_paths[i])) # 1 =>
        /\ ~Imported(i)
        /\ (Completed(i) /\ i \notin raised) => Count("WARNING", zip_paths[i]) = 1

\* C9 (amended): an archive without .usdc file is not imported and has one
\* WARNING; an archive with one or more .usdc files is imported once, from
\* the first .usdc file of its listing.
C9_FirstUsdcImported ==
  /\ \A k \in 1..Len(usd_imports) :
        LET zip == zip_paths[usd_imports[k].archive]
            pos == UsdcPositions(zip)
        IN  /\ pos # {}
            /\ usd_imports[k].filepath
                 = ArchiveFiles(zip)[CHOOSE p \in pos : \A q \in pos : p <= q]
  /\ \A i \in 1..Len(zip_paths) :
        (Completed(i) /\ i \notin raised) =>
           IF UsdcPositions(zip_paths[i]) = {}
           THEN Count("WARNING", zip_paths[i]) = 1
           ELSE Cardinality({k \in 1..Len(usd_imports) : usd_imports[k].archive = i}) = 1

C9_Witness ==
  /\ pc = "finally"
  /\ CurZip = "TwoScenes.zip"
  /\ Cardinality(UsdcPositions(CurZip)) = 2
  /\ idx \notin raised
  /\ Imported(idx)
  /\ usd_imports[Len(usd_imports)].filepath = AUsdc
  /\ Count("WARNING", CurZip) = 0

\* C10: the tracked image names stay those the material referenced before the
\* loop; after the loop the number of added nodes is the number of image
\* files of the archive whose stem fuzzy-matches none of them; "Foo.png" and
\* "Foo.jpg" of one archive both get a node.
C10_TrackedOnce ==
  /\ pc \in {"textures"} \cup AfterLoop => existing_images = ReferencedBefore
  /\ pc \in AfterLoop =>
       LET listing == ArchiveFiles(CurZip)
       IN  /\ Len(texture_nodes) =
                Cardinality({k \in 1..Len(listing) :
                               /\ HasImageExt(listing[k])
                               /\ \A e \in ReferencedBefore :
                                     ~FuzzyMatch(Stem(listing[k]), e)})
           /\ CurZip = "Multi.zip" => (HasTexNode(FooPng) /\ HasTexNode(FooJpg))

C10_Witness ==
  /\ pc = "layout"
  /\ CurZip = "Multi.zip"
  /\ Len(texture_nodes) = 3
  /\ HasTexNode(FooPng)
  /\ HasTexNode(FooJpg)

====
